---- MODULE Spec2Model ----
(***************************************************************************)
(* Gregorian Easter calculator: the Computus core (src/easter.js), the     *)
(* legacy copy of it in src/main.js, and the three variants of the         *)
(* presentation layer (src/main.js, twice, and src/unnamed/part_000).      *)
(***************************************************************************)
EXTENDS Integers, Sequences, FiniteSets, TLC

VARIABLES
  fn,             \* the core function applied last ("none" before any call)
  arg,            \* the JavaScript value it was applied to
  result,         \* what the call produced: a return value or a thrown error
  locals,         \* the intermediates a..m of that call (zeros when none were computed)
  variant,        \* which presentation script is loaded (0: none, 1, 2, 3)
  today,          \* the local calendar day, as a day number (days since 1970-01-01)
  yearInputValue, \* yearInput.value, a string
  output,         \* output.textContent, a sequence of message pieces
  tenseField,     \* tenseField.textContent
  focused,        \* whether yearInput is document.activeElement
  ticks,          \* midnights passed since the page was loaded
  event           \* the handler that ran last, with what it saw and did

vars ==
  <<fn, arg, result, locals, variant, today, yearInputValue, output, tenseField, focused,
    ticks, event>>
coreVars == <<fn, arg, result, locals>>
uiVars == <<variant, today, yearInputValue, output, tenseField, focused, ticks, event>>

(***************************************************************************)
(* Bounds of the model.                                                    *)
(***************************************************************************)
MaxYear == 2583        \* largest year handed to the core functions
BelowStart == 4        \* how many integers below 1583 are tried
MaxExactDigits == 6    \* integers of more digits are kept as "big", value untracked
MaxTicks == 2          \* how many midnights pass while the page is open
FarFrom == 45190       \* far years handed to the core functions: FarFrom..FarTo
FarTo == 45210
SampleStride == 997    \* one year in every SampleStride is tried beyond MaxYear
SampleCount == 300     \* how many of them

(***************************************************************************)
(* JavaScript values.  A number is an integer v ("int"), the fraction      *)
(* v + 1/2 ("half"), an integer too large for the model's arithmetic       *)
(* ("big"), NaN or Infinity; a string is a sequence of one-character       *)
(* strings.                                                                *)
(***************************************************************************)
Num(k, v) == [t |-> "number", k |-> k, v |-> v, s |-> <<>>]
IntNum(v) == Num("int", v)
HalfNum(v) == Num("half", v)
BigNum == Num("big", 1)      \* a finite integer above MaxExact, value not tracked
NegBigNum == Num("big", -1)  \* a finite integer below -MaxExact
NaN == Num("NaN", 0)
Infinity == Num("inf", 1)
NegInfinity == Num("inf", -1)
Str(s) == [t |-> "string", k |-> "str", v |-> 0, s |-> s]

\* Number.isInteger
NumberIsInteger(x) == x.t = "number" /\ x.k \in {"int", "big"}

\* x < n for a JavaScript number x and an integer n (comparisons with NaN are false)
NumberLess(x, n) ==
  CASE x.k = "int"  -> x.v < n
    [] x.k = "half" -> x.v < n
    [] x.k = "big"  -> x.v < 0
    [] x.k = "inf"  -> x.v < 0
    [] OTHER        -> FALSE

\* JavaScript's x % n for integers (the sign follows the dividend)
JsRem(x, n) == IF x >= 0 THEN x % n ELSE -((-x) % n)

\* Math.floor(x / n) for integers x and n > 0
FloorDiv(x, n) == x \div n

Throw(kind, msg) == [kind |-> kind, msg |-> msg, val |-> <<>>]
Return(val) == [kind |-> "return", msg |-> "", val |-> val]
\* a triple of finite numbers is returned; the model does not compute it
ReturnUntracked == [kind |-> "returnUntracked", msg |-> "", val |-> <<>>]
NoResult == [kind |-> "none", msg |-> "", val |-> <<>>]

(***************************************************************************)
(* calculateEasterYMD (src/easter.js): the Anonymous Gregorian Computus,   *)
(* one operator per named intermediate.                                    *)
(***************************************************************************)
GregorianStart == 1583
mc == 19

ymd_a(y) == JsRem(y, mc)
ymd_b(y) == FloorDiv(y, 100)
ymd_c(y) == JsRem(y, 100)
ymd_d_timesFour(y) == ymd_b(y) * 4
ymd_d(y) == FloorDiv(ymd_b(y), 4)
ymd_e_fromYear(y) == JsRem(ymd_c(y), 4)
ymd_e(y) == JsRem(ymd_b(y), 4)
ymd_f(y) == FloorDiv(ymd_b(y) + 8, 25)
ymd_g(y) == FloorDiv(ymd_b(y) - ymd_f(y) + 1, 3)

ymd_h_wrongAnchor(y) == JsRem((mc * ymd_a(y)) + ymd_b(y) - ymd_d(y) - ymd_g(y) + 14, 30)
ymd_h(y) == JsRem((mc * ymd_a(y)) + ymd_b(y) - ymd_d(y) - ymd_g(y) + 15, 30)

ymd_i(y) == FloorDiv(ymd_c(y), 4)
ymd_k_noRemainder(y) == ymd_c(y)
ymd_k(y) == JsRem(ymd_c(y), 4)

ymd_l_wrongBase(y) == JsRem(31 + (2 * ymd_e(y)) + (2 * ymd_i(y)) - ymd_h(y) - ymd_k(y), 7)
ymd_l(y) == JsRem(32 + (2 * ymd_e(y)) + (2 * ymd_i(y)) - ymd_h(y) - ymd_k(y), 7)

ymd_m_literalOne(y) == FloorDiv(ymd_a(y) + (11 * ymd_h(y)) + (22 * 1), 451)
ymd_m(y) == FloorDiv(ymd_a(y) + (11 * ymd_h(y)) + (22 * ymd_l(y)), 451)

ymd_month(y) == FloorDiv(ymd_h(y) + ymd_l(y) - (7 * ymd_m(y)) + 114, 31)
ymd_day(y) == JsRem(ymd_h(y) + ymd_l(y) - (7 * ymd_m(y)) + 114, 31) + 1

YMD(y) == <<y, ymd_month(y), ymd_day(y)>>

ymdLocals(y) ==
  [a |-> ymd_a(y), b |-> ymd_b(y), c |-> ymd_c(y), d |-> ymd_d(y), e |-> ymd_e(y),
   f |-> ymd_f(y), g |-> ymd_g(y), h |-> ymd_h(y), i |-> ymd_i(y), k |-> ymd_k(y),
   l |-> ymd_l(y), m |-> ymd_m(y)]

calculateEasterYMD_rangeFirst(x) ==
  IF NumberLess(x, GregorianStart)
    THEN Throw("RangeError", "Gregorian Easter is defined for years >= 1583")
  ELSE IF x.t # "number" \/ ~NumberIsInteger(x)
    THEN Throw("TypeError", "year must be an integer")
  ELSE IF x.k = "big" THEN ReturnUntracked
  ELSE Return(YMD(x.v))
calculateEasterYMD(x) ==
  IF x.t # "number" \/ ~NumberIsInteger(x)
    THEN Throw("TypeError", "year must be an integer")
  ELSE IF NumberLess(x, GregorianStart)
    THEN Throw("RangeError", "Gregorian Easter is defined for years >= 1583")
  ELSE IF x.k = "big" THEN ReturnUntracked
  ELSE Return(YMD(x.v))

(***************************************************************************)
(* The legacy calculateEaster of src/main.js: the same steps without the   *)
(* guards, and with the literal 1 where m reads l.                         *)
(***************************************************************************)
legacy_h(y) ==
  LET a == JsRem(y, 19)
      b == FloorDiv(y, 100)
      d == FloorDiv(b, 4)
      f == FloorDiv(b + 8, 25)
      g == FloorDiv(b - f + 1, 3)
  IN  JsRem((19 * a) + b - d - g + 15, 30)

legacy_l(y) ==
  LET b == FloorDiv(y, 100)
      c == JsRem(y, 100)
      e == JsRem(b, 4)
      i == FloorDiv(c, 4)
      k == JsRem(c, 4)
  IN  JsRem(32 + (2 * e) + (2 * i) - legacy_h(y) - k, 7)

legacy_m_readsL(y) == FloorDiv(JsRem(y, 19) + (11 * legacy_h(y)) + (22 * legacy_l(y)), 451)
legacy_m(y) == FloorDiv(JsRem(y, 19) + (11 * legacy_h(y)) + (22 * 1), 451)

legacyLocals(y) ==
  LET b == FloorDiv(y, 100)
      c == JsRem(y, 100)
      f == FloorDiv(b + 8, 25)
  IN  [a |-> JsRem(y, 19), b |-> b, c |-> c, d |-> FloorDiv(b, 4), e |-> JsRem(b, 4),
       f |-> f, g |-> FloorDiv(b - f + 1, 3), h |-> legacy_h(y), i |-> FloorDiv(c, 4),
       k |-> JsRem(c, 4), l |-> legacy_l(y), m |-> legacy_m(y)]

legacyYMD(y) ==
  LET h == legacy_h(y)
      l == legacy_l(y)
      m == legacy_m(y)
      month == FloorDiv(h + l - (7 * m) + 114, 31)
      day == JsRem(h + l - (7 * m) + 114, 31) + 1
  IN  <<y, month, day>>

\* The function has no guard: Infinity goes through the arithmetic and comes
\* out as [Infinity, NaN, NaN] (kind "returnNaN").
legacyCalculateEaster(x) ==
  CASE x.k = "int" -> Return(legacyYMD(x.v))
    [] x.k = "big" -> ReturnUntracked
    [] OTHER       -> [kind |-> "returnNaN", msg |-> "", val |-> <<>>]

(***************************************************************************)
(* Date objects.  A Date is kept as its local day number (days since       *)
(* 1970-01-01); the fields are derived from it, as the built-in does.      *)
(***************************************************************************)
InvalidDate == [valid |-> FALSE, day |-> 0]

\* day number of the civil date y-m-d (m in 1..12), proleptic Gregorian
DaysFromCivil(y, m, d) ==
  LET yy == IF m <= 2 THEN y - 1 ELSE y
      era == yy \div 400
      yoe == yy - era * 400
      mp == IF m > 2 THEN m - 3 ELSE m + 9
      doy == ((153 * mp + 2) \div 5) + d - 1
      doe == yoe * 365 + (yoe \div 4) - (yoe \div 100) + doy
  IN  era * 146097 + doe - 719468

\* <<year, month (1..12), day>> of a day number, in stages: the 400-year era and
\* the day of the era, the year of the era, the day of the year (from March 1),
\* and the month
CivilOfDayOfYear(y, doy, mp) ==
  LET d == doy - ((153 * mp + 2) \div 5) + 1
      m == IF mp < 10 THEN mp + 3 ELSE mp - 9
  IN  <<IF m <= 2 THEN y + 1 ELSE y, m, d>>
CivilOfYearOfEra(era, doe, yoe) ==
  CivilOfDayOfYear(yoe + era * 400,
                   doe - (365 * yoe + (yoe \div 4) - (yoe \div 100)),
                   (5 * (doe - (365 * yoe + (yoe \div 4) - (yoe \div 100))) + 2) \div 153)
CivilOfEra(era, doe) ==
  CivilOfYearOfEra(era, doe,
                   (doe - (doe \div 1460) + (doe \div 36524) - (doe \div 146096)) \div 365)
CivilFromDays(z) ==
  CivilOfEra((z + 719468) \div 146097, (z + 719468) - ((z + 719468) \div 146097) * 146097)

\* new Date(year, monthIndex, date) and Date.UTC(year, monthIndex, date) in whole
\* days: years 0..99 mean 1900..1999, months and days overflow into their
\* neighbours, and a time beyond 100,000,000 days from the epoch is invalid.
NewDate(year, monthIndex, date) ==
  LET full == IF year >= 0 /\ year <= 99 THEN 1900 + year ELSE year
      ym == full + (monthIndex \div 12)
      mn == monthIndex % 12
      t == DaysFromCivil(ym, mn + 1, 1) + date - 1
  IN  IF t > 100000000 \/ t < -100000000 THEN InvalidDate ELSE [valid |-> TRUE, day |-> t]

getFullYear(dt) == CivilFromDays(dt.day)[1]
getMonth(dt) == CivilFromDays(dt.day)[2] - 1
getDate(dt) == CivilFromDays(dt.day)[3]

\* calculateEaster of src/easter.js: the triple as a Date
ReturnDate(dt) ==
  IF dt.valid THEN [kind |-> "returnDate", msg |-> "", val |-> <<dt.day>>]
  ELSE [kind |-> "returnInvalidDate", msg |-> "", val |-> <<>>]

calculateEaster(x) ==
  LET r == calculateEasterYMD(x)
  IN  CASE r.kind = "return" -> ReturnDate(NewDate(r.val[1], r.val[2] - 1, r.val[3]))
        [] r.kind = "returnUntracked" -> ReturnDate(InvalidDate)
        [] OTHER -> r

(***************************************************************************)
(* Strings and the conversions between strings and numbers.                *)
(***************************************************************************)
DigitChars == <<"0", "1", "2", "3", "4", "5", "6", "7", "8", "9">>
IsDigit(ch) == \E n \in 1..10 : DigitChars[n] = ch
DigitVal(ch) == (CHOOSE n \in 1..10 : DigitChars[n] = ch) - 1
IsSpace(ch) == ch \in {" ", "\t"}

\* the length of the longest prefix of str whose characters all satisfy Is
PrefixLen(str, Is(_)) ==
  IF \A n \in 1..Len(str) : Is(str[n]) THEN Len(str)
  ELSE (CHOOSE n \in 1..Len(str) : ~Is(str[n]) /\ \A j \in 1..(n - 1) : Is(str[j])) - 1

\* the length of the longest suffix of str whose characters all satisfy Is
SuffixLen(str, Is(_)) ==
  IF \A n \in 1..Len(str) : Is(str[n]) THEN Len(str)
  ELSE Len(str)
         - (CHOOSE n \in 1..Len(str) :
              ~Is(str[n]) /\ \A j \in (n + 1)..Len(str) : Is(str[j]))

SkipSpaces(str) == SubSeq(str, PrefixLen(str, IsSpace) + 1, Len(str))
DropTrailingSpaces(str) == SubSeq(str, 1, Len(str) - SuffixLen(str, IsSpace))

\* String.prototype.trim
Trim(str) == DropTrailingSpaces(SkipSpaces(str))

DigitPrefix(str) == SubSeq(str, 1, PrefixLen(str, IsDigit))

IsZero(ch) == ch = "0"
StripZeros(ds) == SubSeq(ds, PrefixLen(ds, IsZero) + 1, Len(ds))

RECURSIVE DigitsValue(_)
DigitsValue(ds) ==
  IF ds = <<>> THEN 0 ELSE 10 * DigitsValue(SubSeq(ds, 1, Len(ds) - 1)) + DigitVal(ds[Len(ds)])

\* The leading digits of 2^1024 - 2^970, a number of 309 digits: a decimal integer
\* at or above it converts to Infinity.  The comparison reads these 17 digits; a
\* 309-digit string that agrees on all of them is taken to be above.
OverflowDigits == <<1, 7, 9, 7, 6, 9, 3, 1, 3, 4, 8, 6, 2, 3, 1, 5, 8>>
RECURSIVE LexGeq(_, _, _)
LexGeq(ds, limit, n) ==
  IF n > Len(limit) THEN TRUE
  ELSE IF DigitVal(ds[n]) # limit[n] THEN DigitVal(ds[n]) > limit[n]
  ELSE LexGeq(ds, limit, n + 1)
Overflows(ds) == Len(ds) > 309 \/ (Len(ds) = 309 /\ LexGeq(ds, OverflowDigits, 1))

\* parseInt(str, 10): leading white space and one sign are skipped, the longest
\* run of digits is read, and anything after it is ignored; no digit gives NaN.
parseInt(str) ==
  LET t == SkipSpaces(str)
      neg == t # <<>> /\ Head(t) = "-"
      u == IF t # <<>> /\ Head(t) \in {"-", "+"} THEN Tail(t) ELSE t
      ds == DigitPrefix(u)
      sig == StripZeros(ds)
  IN  IF ds = <<>> THEN NaN
      ELSE IF Len(sig) <= MaxExactDigits
        THEN IntNum(IF neg THEN -DigitsValue(sig) ELSE DigitsValue(sig))
      ELSE IF Overflows(sig) THEN (IF neg THEN NegInfinity ELSE Infinity)
      ELSE IF neg THEN NegBigNum ELSE BigNum

\* isNaN / Number.isNaN of a number
isNaN(x) == x.k = "NaN"

\* the decimal digits of a non-negative integer (a number assigned to .value)
RECURSIVE NumberToString(_)
NumberToString(n) ==
  IF n < 10 THEN <<DigitChars[n + 1]>>
  ELSE NumberToString(n \div 10) \o <<DigitChars[(n % 10) + 1]>>

\* toLocaleDateString('default', { month: 'long' }), in English
MonthNames ==
  <<"January", "February", "March", "April", "May", "June", "July", "August",
    "September", "October", "November", "December">>

\* a number inside a template literal
Shown(n) == ToString(n)

(***************************************************************************)
(* The presentation layer: compareDate and tenseSetter, three variants.    *)
(* A message is the sequence of the pieces of its template literal.        *)
(***************************************************************************)
Compared(msg, tense) == [msg |-> msg, tense |-> tense]

\* what every variant makes of an Invalid Date: all its fields are NaN, every
\* comparison is false, and the last branch is taken
InvalidDateMessage ==
  Compared(<<"In ", "NaN", ", Easter will be on ", "Invalid Date", " ", "NaN", ".">>, "future")

\* the Date the first variant builds from the triple it is handed
compDate1(easterDate) ==
  IF easterDate.kind = "return"
    THEN NewDate(easterDate.val[1], easterDate.val[2] - 1, easterDate.val[3])
    ELSE InvalidDate

\* compareDate of the first variant (src/main.js, line 103), from the fields of
\* the two dates: comp is Easter, cur is today, each <<year, month, day>>
compareFields1(comp, cur) ==
  LET compYear == comp[1]
      compMonth == comp[2]
      compDay == comp[3]
      rm == MonthNames[comp[2]]
      year == cur[1]
      month == cur[2]
      day == cur[3]
  IN  IF compYear < year THEN
        IF compYear = year - 1
          THEN Compared(<<"Last year, Easter was on ", rm, " ", Shown(compDay), ".">>, "past")
          ELSE Compared(<<"In ", Shown(compYear), ", Easter was on ", rm, " ",
                          Shown(compDay), ".">>, "past")
      ELSE IF compYear = year THEN
        IF compMonth = month /\ compDay = day
          THEN Compared(<<"Today, ", rm, " ", Shown(compDay), ", ", Shown(compYear),
                          " is Easter!">>, "present")
        ELSE IF compMonth = month /\ compDay = day + 1
          THEN Compared(<<"Tomorrow, ", rm, " ", Shown(compDay), ", ", Shown(compYear),
                          " is Easter!">>, "future")
        ELSE IF compMonth = month /\ compDay = day - 1
          THEN Compared(<<"Yesterday, ", rm, " ", Shown(compDay), ", ", Shown(compYear),
                          " was Easter!">>, "past")
        ELSE IF compMonth < month \/ (compMonth = month /\ compDay < day)
          THEN Compared(<<"This year, Easter was on ", rm, " ", Shown(compDay), ".">>, "past")
        ELSE Compared(<<"This year, Easter will be on ", rm, " ", Shown(compDay), ".">>,
                      "future")
      ELSE
        IF compYear = year + 1
          THEN Compared(<<"Next year, Easter will be on ", rm, " ", Shown(compDay), ".">>,
                        "future")
          ELSE Compared(<<"In ", Shown(compYear), ", Easter will be on ", rm, " ",
                          Shown(compDay), ".">>, "future")

\* compareDate of the first variant on the triple it is handed; now is today's Date
compareDate1(easterDate, now) ==
  IF ~compDate1(easterDate).valid THEN InvalidDateMessage
  ELSE compareFields1(CivilFromDays(compDate1(easterDate).day), CivilFromDays(now.day))

\* Date.UTC(d.getFullYear(), d.getMonth(), d.getDate()) in whole days, from the
\* fields <<year, month, day>> of d
utcDay(fields) == NewDate(fields[1], fields[2] - 1, fields[3]).day

\* Math.round((t1 - t0) / (24 * 60 * 60 * 1000)): both times are whole days, so
\* the quotient is their difference
diffDays(comp, cur) == utcDay(comp) - utcDay(cur)

\* compareDate of the second variant (src/main.js, line 210), from the fields of
\* the two dates and the difference in days
compareFields2(comp, cur, diff) ==
  LET compYear == comp[1]
      compDay == comp[3]
      rm == MonthNames[comp[2]]
      thisYear == cur[1]
  IN  IF diff = 0
        THEN Compared(<<"Today, ", rm, " ", Shown(compDay), ", ", Shown(compYear),
                        " is Easter!">>, "present")
      ELSE IF diff = 1
        THEN Compared(<<"Tomorrow, ", rm, " ", Shown(compDay), ", ", Shown(compYear),
                        " is Easter!">>, "future")
      ELSE IF diff = -1
        THEN Compared(<<"Yesterday, ", rm, " ", Shown(compDay), ", ", Shown(compYear),
                        " was Easter!">>, "past")
      ELSE IF compYear = thisYear THEN
        IF diff < 0
          THEN Compared(<<"This year, Easter was on ", rm, " ", Shown(compDay), ".">>, "past")
          ELSE Compared(<<"This year, Easter will be on ", rm, " ", Shown(compDay), ".">>,
                        "future")
      ELSE IF compYear = thisYear - 1
        THEN Compared(<<"Last year, Easter was on ", rm, " ", Shown(compDay), ".">>, "past")
      ELSE IF compYear = thisYear + 1
        THEN Compared(<<"Next year, Easter will be on ", rm, " ", Shown(compDay), ".">>,
                      "future")
      ELSE IF compYear < thisYear
        THEN Compared(<<"In ", Shown(compYear), ", Easter was on ", rm, " ",
                        Shown(compDay), ".">>, "past")
      ELSE Compared(<<"In ", Shown(compYear), ", Easter will be on ", rm, " ",
                      Shown(compDay), ".">>, "future")

compareDate2(dateObj, now) ==
  IF ~dateObj.valid THEN InvalidDateMessage
  ELSE compareFields2(CivilFromDays(dateObj.day), CivilFromDays(now.day),
                      diffDays(CivilFromDays(dateObj.day), CivilFromDays(now.day)))

\* compareDate of the third variant (src/unnamed/part_000, line 9)
compareFields3(comp, cur, diff) ==
  LET compYear == comp[1]
      compDay == comp[3]
      rm == MonthNames[comp[2]]
      thisYear == cur[1]
  IN  IF diff = 0
        THEN Compared(<<"Today, ", rm, " ", Shown(compDay), ", ", Shown(compYear),
                        " is Easter!">>, "present")
      ELSE IF diff = 1
        THEN Compared(<<"Tomorrow, ", rm, " ", Shown(compDay), ", ", Shown(compYear),
                        " is Easter!">>, "future")
      ELSE IF diff = -1
        THEN Compared(<<"Yesterday, ", rm, " ", Shown(compDay), ", ", Shown(compYear),
                        " was Easter!">>, "past")
      ELSE IF compYear = thisYear THEN
        IF diff < 0
          THEN Compared(<<"This year, Easter was on ", rm, " ", Shown(compDay), ".">>, "past")
          ELSE Compared(<<"This year, Easter will be on ", rm, " ", Shown(compDay), ".">>,
                        "future")
      ELSE IF compYear = thisYear - 1
        THEN Compared(<<"Last year, Easter was on ", rm, " ", Shown(compDay), ".">>, "past")
      ELSE IF compYear = thisYear + 1
        THEN Compared(<<"Next year, Easter will be on ", rm, " ", Shown(compDay), ".">>,
                      "future")
      ELSE IF compYear < thisYear
        THEN Compared(<<"In ", Shown(compYear), ", Easter was on ", rm, " ",
                        Shown(compDay), ".">>, "past")
      ELSE Compared(<<"In ", Shown(compYear), ", Easter will be on ", rm, " ",
                      Shown(compDay), ".">>, "future")

compareDate3(dateObj, now) ==
  IF ~dateObj.valid THEN InvalidDateMessage
  ELSE compareFields3(CivilFromDays(dateObj.day), CivilFromDays(now.day),
                      diffDays(CivilFromDays(dateObj.day), CivilFromDays(now.day)))

\* tenseSetter, first variant: tenseWord stays undefined for any other t, and
\* textContent then becomes the empty string
tenseSetter1(t) ==
  CASE t = "past"    -> "was Easter"
    [] t = "present" -> "is Easter"
    [] t = "future"  -> "will Easter be"
    [] OTHER         -> ""

\* tenseSetter, second variant
tenseSetter2(t) ==
  CASE t = "past"    -> "was Easter"
    [] t = "present" -> "is Easter"
    [] t = "future"  -> "will Easter be"
    [] OTHER         -> ""

\* tenseSetter, third variant
tenseSetter3(t) ==
  CASE t = "past"    -> "was Easter"
    [] t = "present" -> "is Easter"
    [] t = "future"  -> "will be Easter"
    [] OTHER         -> ""

Prompt == <<"Pick any year after 1582.">>

\* What the handler that ran last saw and did: what parseInt made of the value
\* it read, whether calculateEaster was called, what was thrown out of the
\* handler, the Date handed to compareDate and the tense it returned, and the day
\* it ran on.
NoEvent ==
  [handler |-> "none", parsed |-> NaN, called |-> FALSE, thrown |-> "none",
   compared |-> FALSE, date |-> InvalidDate, tense |-> "", now |-> 0]

(***************************************************************************)
(* The core on its own: an argument is drawn, and each function is applied *)
(* to it.                                                                  *)
(***************************************************************************)
Undefined == [t |-> "undefined", k |-> "undefined", v |-> 0, s |-> <<>>]
NoLocals ==
  [a |-> 0, b |-> 0, c |-> 0, d |-> 0, e |-> 0, f |-> 0, g |-> 0, h |-> 0, i |-> 0,
   k |-> 0, l |-> 0, m |-> 0]

FarYears == FarFrom..FarTo
SampledYears == {GregorianStart + (SampleStride * n) : n \in 1..SampleCount}
YearArgs == ((GregorianStart - BelowStart)..MaxYear) \cup FarYears \cup SampledYears
Args ==
  {IntNum(y) : y \in YearArgs} \cup {IntNum(0), IntNum(-2024)}
    \cup {HalfNum(y) : y \in {GregorianStart - 1, GregorianStart, 2024}}
    \cup {NaN, Infinity, BigNum, NegBigNum, Undefined}
    \cup {Str(<<"2", "0", "2", "4">>), Str(<<>>)}
\* the legacy function is only ever handed what its caller's guard lets through
LegacyArgs == {IntNum(y) : y \in GregorianStart..MaxYear} \cup {Infinity, BigNum}

UiIdle ==
  /\ variant = 0
  /\ today = 0
  /\ yearInputValue = <<>>
  /\ output = <<>>
  /\ tenseField = ""
  /\ focused = FALSE
  /\ ticks = 0
  /\ event = NoEvent

InitCore ==
  /\ fn = "none"
  /\ arg \in Args
  /\ result = NoResult
  /\ locals = NoLocals
  /\ UiIdle

CallCalculateEasterYMD ==
  /\ fn' = "calculateEasterYMD"
  /\ result' = calculateEasterYMD(arg)
  /\ locals' = IF result'.kind = "return" THEN ymdLocals(arg.v) ELSE NoLocals
  /\ UNCHANGED <<arg, uiVars>>

CallCalculateEaster ==
  /\ fn' = "calculateEaster"
  /\ result' = calculateEaster(arg)
  /\ locals' = IF result'.kind = "returnDate" THEN ymdLocals(arg.v) ELSE NoLocals
  /\ UNCHANGED <<arg, uiVars>>

CallLegacyCalculateEaster ==
  /\ arg \in LegacyArgs
  /\ fn' = "legacyCalculateEaster"
  /\ result' = legacyCalculateEaster(arg)
  /\ locals' = IF arg.k = "int" THEN legacyLocals(arg.v) ELSE NoLocals
  /\ UNCHANGED <<arg, uiVars>>

NextCore ==
  \/ CallCalculateEasterYMD
  \/ CallCalculateEaster
  \/ CallLegacyCalculateEaster

SpecCore == InitCore /\ [][NextCore]_vars

(***************************************************************************)
(* The page: one of the three scripts is loaded, the user edits the year   *)
(* field, and days pass.                                                   *)
(***************************************************************************)
Now == [valid |-> TRUE, day |-> today]

Ev(handler, parsed, called, thrown, compared, date, tense) ==
  [handler |-> handler, parsed |-> parsed, called |-> called,
   thrown |-> thrown, compared |-> compared, date |-> date, tense |-> tense, now |-> today]

LongDigits == [n \in 1..310 |-> "9"]

\* what the user may leave in the year field
InputValues ==
  { <<>>, <<"a", "b", "c">>, <<"-", "5">>, <<"1", "5", "8", "2">>,
    <<"1", "5", "8", "2", ".", "5">>, <<"2", "0", "1", "8">>, <<"2", "0", "2", "4", "a">>,
    <<" ", "2", "0", "2", "5", " ">>, <<"1", "2", "3", "4", "5", "6", "7">>, LongDigits }

Keys == {"5", "a", "Enter"}

\* the days on which the page may be loaded
StartDays ==
  { DaysFromCivil(2018, 3, 30), DaysFromCivil(2024, 3, 30), DaysFromCivil(2025, 4, 19) }

AsDate(r) == IF r.kind = "returnDate" THEN [valid |-> TRUE, day |-> r.val[1]] ELSE InvalidDate

\* first variant, lines 198..200: the current year is shown at load
Load1 ==
  LET y == IntNum(getFullYear(Now))
      easterDate == legacyCalculateEaster(y)
      cmp == compareDate1(easterDate, Now)
  IN  /\ yearInputValue = NumberToString(y.v)
      /\ fn = "legacyCalculateEaster"
      /\ arg = y
      /\ result = easterDate
      /\ locals = legacyLocals(y.v)
      /\ tenseField = tenseSetter1(cmp.tense)
      /\ output = cmp.msg
      /\ focused = FALSE
      /\ event = [NoEvent EXCEPT !.handler = "load", !.parsed = y,
                                 !.called = TRUE, !.compared = TRUE,
                                 !.date = compDate1(easterDate), !.tense = cmp.tense,
                                 !.now = today]

\* second variant, lines 305..320 and 335
Load2 ==
  LET currentYear == IntNum(getFullYear(Now))
      easterDate == calculateEaster(currentYear)
      cmp == compareDate2(AsDate(easterDate), Now)
  IN  /\ yearInputValue = NumberToString(currentYear.v)
      /\ fn = "calculateEaster"
      /\ arg = currentYear
      /\ result = easterDate
      /\ locals = ymdLocals(currentYear.v)
      /\ output = cmp.msg
      /\ tenseField = tenseSetter2(cmp.tense)
      /\ focused = TRUE
      /\ event = [NoEvent EXCEPT !.handler = "load",
                                 !.parsed = currentYear, !.called = TRUE, !.compared = TRUE,
                                 !.date = AsDate(easterDate), !.tense = cmp.tense,
                                 !.now = today]

\* third variant, lines 103..111
Load3 ==
  LET y == IntNum(getFullYear(Now))
      todayEaster == calculateEaster(y)
      initial == compareDate3(AsDate(todayEaster), Now)
  IN  /\ yearInputValue = NumberToString(y.v)
      /\ fn = "calculateEaster"
      /\ arg = y
      /\ result = todayEaster
      /\ locals = ymdLocals(y.v)
      /\ tenseField = tenseSetter3(initial.tense)
      /\ output = initial.msg
      /\ focused = FALSE
      /\ event = [NoEvent EXCEPT !.handler = "load", !.parsed = y,
                                 !.called = TRUE, !.compared = TRUE,
                                 !.date = AsDate(todayEaster), !.tense = initial.tense,
                                 !.now = today]

InitUI ==
  /\ variant \in {1, 2, 3}
  /\ today \in StartDays
  /\ ticks = 0
  /\ \/ variant = 1 /\ Load1
     \/ variant = 2 /\ Load2
     \/ variant = 3 /\ Load3

\* first variant: the input listener (src/main.js, line 183)
InputListener1 ==
  /\ variant = 1
  /\ \E v \in InputValues :
       LET y == parseInt(v)
       IN  /\ yearInputValue' = v
           /\ IF isNaN(y) \/ NumberLess(y, 1583)
                THEN /\ output' = Prompt
                     /\ event' = Ev("input", y, FALSE, "none", FALSE, InvalidDate, "")
                     /\ UNCHANGED <<tenseField, coreVars>>
                ELSE LET easterDate == legacyCalculateEaster(y)
                         cmp == compareDate1(easterDate, Now)
                     IN  /\ fn' = "legacyCalculateEaster"
                         /\ arg' = y
                         /\ result' = easterDate
                         /\ locals' = IF y.k = "int" THEN legacyLocals(y.v) ELSE NoLocals
                         /\ output' = cmp.msg
                         /\ tenseField' = tenseSetter1(cmp.tense)
                         /\ event' = Ev("input", y, TRUE, "none", TRUE,
                                        compDate1(easterDate), cmp.tense)
  /\ UNCHANGED <<variant, today, focused, ticks>>

\* second variant: updateUIForYear (line 285); an error thrown by calculateEaster
\* leaves the handler before anything is shown
updateUIForYear2(year, handler) ==
  LET easterDate == calculateEaster(year)
      cmp == compareDate2(AsDate(easterDate), Now)
  IN  /\ fn' = "calculateEaster"
      /\ arg' = year
      /\ result' = easterDate
      /\ locals' = IF easterDate.kind = "returnDate" THEN ymdLocals(year.v) ELSE NoLocals
      /\ IF easterDate.kind \in {"TypeError", "RangeError"}
           THEN /\ event' = Ev(handler, year, TRUE, easterDate.kind, FALSE, InvalidDate, "")
                /\ UNCHANGED <<output, tenseField>>
           ELSE /\ output' = cmp.msg
                /\ tenseField' = tenseSetter2(cmp.tense)
                /\ event' = Ev(handler, year, TRUE, "none", TRUE, AsDate(easterDate),
                               cmp.tense)

\* second variant: onYearInput (line 292) on the value v
onYearInput2(v, handler) ==
  LET raw == Trim(v)
      y == parseInt(raw)
  IN  IF raw = <<>> \/ isNaN(y) \/ NumberLess(y, 1583)
        THEN /\ event' = Ev(handler, y, FALSE, "none", FALSE, InvalidDate, "")
             /\ UNCHANGED <<output, tenseField, coreVars>>
        ELSE updateUIForYear2(y, handler)

\* second variant: the user edits the focused field
OnYearInput2 ==
  /\ variant = 2
  /\ focused
  /\ \E v \in InputValues :
       /\ yearInputValue' = v
       /\ onYearInput2(v, "input")
  /\ UNCHANGED <<variant, today, focused, ticks>>

\* second variant: the blur listener (line 308)
Blur2 ==
  /\ variant = 2
  /\ focused
  /\ focused' = FALSE
  /\ IF Trim(yearInputValue) = <<>>
       THEN LET currentYear == IntNum(getFullYear(Now))
            IN  /\ yearInputValue' = NumberToString(currentYear.v)
                /\ updateUIForYear2(currentYear, "blur")
       ELSE /\ event' = Ev("blur", parseInt(yearInputValue), FALSE, "none",
                           FALSE, InvalidDate, "")
            /\ UNCHANGED <<yearInputValue, output, tenseField, coreVars>>
  /\ UNCHANGED <<variant, today, ticks>>

\* second variant: the user puts the focus back into the field
Focus2 ==
  /\ variant = 2
  /\ ~focused
  /\ focused' = TRUE
  /\ UNCHANGED <<coreVars, variant, today, yearInputValue, output, tenseField, ticks, event>>

\* second variant: the keydown listener (line 322), for a digit key pressed while
\* the field has no focus: the field takes the focus and the digit, and the input
\* handler runs on it.  For any other key the listener does nothing.
Keydown2 ==
  /\ variant = 2
  /\ \E key \in Keys :
       /\ IsDigit(key)
       /\ ~focused
       /\ focused' = TRUE
       /\ yearInputValue' = <<key>>
       /\ onYearInput2(<<key>>, "keydown")
  /\ UNCHANGED <<variant, today, ticks>>

\* third variant: onYearInput (src/unnamed/part_000, line 88)
OnYearInput3 ==
  /\ variant = 3
  /\ \E v \in InputValues :
       LET y == parseInt(v)
           easterDate == calculateEaster(y)
           cmp == compareDate3(AsDate(easterDate), Now)
       IN  /\ yearInputValue' = v
           /\ IF isNaN(y) \/ NumberLess(y, 1583)
                THEN /\ output' = Prompt
                     /\ tenseField' = ""
                     /\ event' = Ev("input", y, FALSE, "none", FALSE, InvalidDate, "")
                     /\ UNCHANGED coreVars
                ELSE /\ fn' = "calculateEaster"
                     /\ arg' = y
                     /\ result' = easterDate
                     /\ locals' = IF easterDate.kind = "returnDate" THEN ymdLocals(y.v)
                                  ELSE NoLocals
                     /\ IF easterDate.kind \in {"TypeError", "RangeError"}
                          THEN /\ event' = Ev("input", y, TRUE, easterDate.kind, FALSE,
                                              InvalidDate, "")
                               /\ UNCHANGED <<output, tenseField>>
                          ELSE /\ output' = cmp.msg
                               /\ tenseField' = tenseSetter3(cmp.tense)
                               /\ event' = Ev("input", y, TRUE, "none", TRUE,
                                              AsDate(easterDate), cmp.tense)
  /\ UNCHANGED <<variant, today, focused, ticks>>

\* midnight passes: new Date() is the next day from now on
Tick ==
  /\ variant # 0
  /\ ticks < MaxTicks
  /\ ticks' = ticks + 1
  /\ today' = today + 1
  /\ UNCHANGED <<coreVars, variant, yearInputValue, output, tenseField, focused, event>>

NextUI ==
  \/ InputListener1
  \/ OnYearInput2
  \/ Blur2
  \/ Focus2
  \/ Keydown2
  \/ OnYearInput3
  \/ Tick

SpecUI == InitUI /\ [][NextUI]_vars

(***************************************************************************)
(* Properties of the core.                                                 *)
(***************************************************************************)
\* the last call was calculateEasterYMD on an integer year within the bounds
YmdInRange ==
  /\ fn = "calculateEasterYMD"
  /\ arg.k = "int"
  /\ arg.v \in GregorianStart..MaxYear

\* C1: for every integer year y in [1583, 2583] calculateEasterYMD returns
\* [y, month, day] with month 3 and day in 22..31, or month 4 and day in 1..25.
C1_EasterWindow ==
  YmdInRange =>
    /\ result.kind = "return"
    /\ Len(result.val) = 3
    /\ result.val[1] = arg.v
    /\ result.val[2] \in {3, 4}
    /\ result.val[2] = 3 => result.val[3] \in 22..31
    /\ result.val[2] = 4 => result.val[3] \in 1..25

\* both ends of the window are produced: April 25 here (2038)
C1_Witness == YmdInRange /\ result.kind = "return" /\ result.val[2] = 4 /\ result.val[3] = 25

\* C2: the golden values 2024 -> (2024, 3, 31), 2025 -> (2025, 4, 20),
\* 2000 -> (2000, 4, 23) and 1900 -> (1900, 4, 15) are returned exactly.
C2_GoldenValues ==
  fn = "calculateEasterYMD" =>
    /\ arg = IntNum(2024) => result = Return(<<2024, 3, 31>>)
    /\ arg = IntNum(2025) => result = Return(<<2025, 4, 20>>)
    /\ arg = IntNum(2000) => result = Return(<<2000, 4, 23>>)
    /\ arg = IntNum(1900) => result = Return(<<1900, 4, 15>>)

C2_Witness == fn = "calculateEasterYMD" /\ arg = IntNum(1900) /\ result.kind = "return"

\* C3 as stated: calculateEasterYMD(1583) returns (1583, 3, 31).
C3_AsStated ==
  (fn = "calculateEasterYMD" /\ arg = IntNum(1583)) => result = Return(<<1583, 3, 31>>)

\* C3, amended: calculateEasterYMD(1583) returns (1583, 4, 10): the first
\* computable Gregorian Easter is April 10, 1583.
C3_FirstEaster ==
  (fn = "calculateEasterYMD" /\ arg = IntNum(1583)) => result = Return(<<1583, 4, 10>>)

C3_Witness == fn = "calculateEasterYMD" /\ arg = IntNum(GregorianStart) /\ result.kind = "return"

\* a value that is not an integer: not a number at all, or a fraction, NaN or
\* Infinity
NonInteger(x) == x.t # "number" \/ x.k \in {"half", "NaN", "inf"}

\* C4: calculateEasterYMD raises TypeError 'year must be an integer' for every
\* non-integer argument (also one below 1583), raises RangeError for every integer
\* below 1583, and returns a triple for every integer >= 1583, however large.
C4_Rejects ==
  fn = "calculateEasterYMD" =>
    /\ NonInteger(arg) => result = Throw("TypeError", "year must be an integer")
    /\ (~NonInteger(arg) /\ NumberLess(arg, 1583)) => result.kind = "RangeError"
    /\ (~NonInteger(arg) /\ ~NumberLess(arg, 1583)) =>
         /\ result.kind \in {"return", "returnUntracked"}
         /\ arg.k = "int" => (Len(result.val) = 3 /\ result.val[1] = arg.v)
    /\ (NonInteger(arg) \/ NumberLess(arg, 1583)) => result.val = <<>>

\* the fraction 1582.5, below the range and not an integer, is a TypeError
C4_Witness ==
  fn = "calculateEasterYMD" /\ arg = HalfNum(1582) /\ result.kind = "TypeError"

\* The day of the week from the Gregorian leap-year rules alone: 0 is Sunday.
IsLeapYear(y) == (y % 4 = 0 /\ y % 100 # 0) \/ y % 400 = 0
DaysInMonth(y, mo) ==
  CASE mo \in {4, 6, 9, 11} -> 30
    [] mo = 2 -> IF IsLeapYear(y) THEN 29 ELSE 28
    [] OTHER -> 31
RECURSIVE DaysBeforeMonth(_, _)
DaysBeforeMonth(y, mo) ==
  IF mo <= 1 THEN 0 ELSE DaysBeforeMonth(y, mo - 1) + DaysInMonth(y, mo - 1)
\* days from 0001-01-01 (a Monday, numbered 1) to y-mo-d
GregorianOrdinal(y, mo, d) ==
  365 * (y - 1) + ((y - 1) \div 4) - ((y - 1) \div 100) + ((y - 1) \div 400)
    + DaysBeforeMonth(y, mo) + d
GregorianWeekday(y, mo, d) == GregorianOrdinal(y, mo, d) % 7

\* C5: for every integer year y in [1583, 2583] the one date calculateEasterYMD
\* returns is a valid calendar day of year y and a Sunday.
C5_Sunday ==
  YmdInRange =>
    /\ result.kind = "return"
    /\ result.val[1] = arg.v
    /\ result.val[2] \in 1..12
    /\ result.val[3] \in 1..DaysInMonth(result.val[1], result.val[2])
    /\ GregorianWeekday(result.val[1], result.val[2], result.val[3]) = 0

\* a Sunday in a century leap year (2000-04-23)
C5_Witness ==
  /\ YmdInRange
  /\ arg.v = 2000
  /\ result.kind = "return"
  /\ GregorianWeekday(result.val[1], result.val[2], result.val[3]) = 0

\* the date the offset h + l + 114 gives before the correction, as <<month, day>>
Uncorrected(loc) == <<(loc.h + loc.l + 114) \div 31, ((loc.h + loc.l + 114) % 31) + 1>>

YmdReturned == fn = "calculateEasterYMD" /\ result.kind = "return"

LegacyInRange ==
  /\ fn = "legacyCalculateEaster"
  /\ arg.k = "int"
  /\ arg.v \in GregorianStart..MaxYear

hOperand(loc) == (mc * loc.a) + loc.b - loc.d - loc.g + 15
lOperand(loc) == 32 + (2 * loc.e) + (2 * loc.i) - loc.h - loc.k
dayOperand(loc) == loc.h + loc.l - (7 * loc.m) + 114

\* C11: in calculateEasterYMD, for every integer year >= 1583 the left operand of
\* each modulo is non-negative before reduction (19a + b - d - g + 15 for % 30,
\* 32 + 2e + 2i - h - k for % 7, h + l - 7m + 114 for % 31), so the truncating
\* remainder equals the floor modulo, and h is in 0..29, l in 0..6, day in 1..31.
C11_NonNegativeOperands ==
  YmdReturned =>
    /\ hOperand(locals) >= 0
    /\ lOperand(locals) >= 0
    /\ dayOperand(locals) >= 0
    /\ locals.h = JsRem(hOperand(locals), 30)
    /\ locals.h = hOperand(locals) % 30
    /\ locals.l = JsRem(lOperand(locals), 7)
    /\ locals.l = lOperand(locals) % 7
    /\ result.val[3] = JsRem(dayOperand(locals), 31) + 1
    /\ result.val[3] = (dayOperand(locals) % 31) + 1
    /\ locals.h \in 0..29
    /\ locals.l \in 0..6
    /\ result.val[3] \in 1..31

\* the operands at their smallest: 22 before % 30 (1596) and, in a far year,
\* 2 before % 7 (45201)
C11_Witness ==
  YmdReturned /\ (hOperand(locals) = 22 \/ (arg.v > MaxYear /\ lOperand(locals) = 2))

IntermediateNames == {"a", "b", "c", "d", "e", "f", "g", "h", "i", "k", "l", "m"}

\* C12 as stated: for every accepted year, with no upper bound, each intermediate
\* a, b, c, d, e, f, g, h, i, k, l, m is an integer between 0 and 451.
C12_AsStated ==
  YmdReturned => \A n \in IntermediateNames : locals[n] \in 0..451

\* C12, corrected: for a year from 1583 to 45199 every intermediate is between 0
\* and 451.  For any accepted year a, c, e, h, i, k, l, m stay in their small
\* ranges, while the century b and with it d, f, g (none above b) are
\* non-negative and grow with the year; b is above 451 from the year 45200 on.
C12_Intermediates ==
  YmdReturned =>
    /\ locals.a \in 0..18
    /\ locals.c \in 0..99
    /\ locals.e \in 0..3
    /\ locals.h \in 0..29
    /\ locals.i \in 0..24
    /\ locals.k \in 0..3
    /\ locals.l \in 0..6
    /\ locals.m \in 0..1
    /\ locals.b \in Nat
    /\ locals.d \in 0..locals.b
    /\ locals.f \in 0..locals.b
    /\ locals.g \in 0..locals.b
    /\ locals.b > 451 <=> arg.v >= 45200
    /\ arg.v < 45200 => \A n \in IntermediateNames : locals[n] \in 0..451

\* a year whose century is above 451 (45200: b = 452)
C12_Witness == YmdReturned /\ arg.v = 45200 /\ locals.b = 452

(***************************************************************************)
(* Properties of the presentation layer.                                   *)
(***************************************************************************)
\* the handler that ran last handed a valid Easter date to compareDate, and its
\* message is the one on show
ComparedValid == event.compared /\ event.date.valid

\* C6 as stated: in every compareDate variant, an Easter date E on today's date
\* T gives tense 'present' and a message starting 'Today, ', E on the day after
\* T gives 'future' and 'Tomorrow, ', and E on the day before T gives 'past' and
\* 'Yesterday, ', also when E and T lie in different months.
C6_AsStated ==
  ComparedValid =>
    /\ event.date.day = event.now => (event.tense = "present" /\ Head(output) = "Today, ")
    /\ event.date.day = event.now + 1 =>
         (event.tense = "future" /\ Head(output) = "Tomorrow, ")
    /\ event.date.day = event.now - 1 =>
         (event.tense = "past" /\ Head(output) = "Yesterday, ")

\* the same holds of the second and third variants, which compare day numbers
C6_LaterVariants == variant \in {2, 3} => C6_AsStated

\* and of the first variant while Easter and today lie in the same month
C6_FirstVariantSameMonth ==
  (variant = 1 /\ ComparedValid
     /\ CivilFromDays(event.date.day)[2] = CivilFromDays(event.now)[2]) => C6_AsStated

\* parseInt gave NaN or a number below 1583
Unusable(x) == x.k = "NaN" \/ (x.k = "int" /\ x.v < 1583) \/ (x.k \in {"big", "inf"} /\ x.v < 0)

\* C7 as stated: an input event whose value parses to NaN or to an integer below
\* 1583 does not call calculateEaster and leaves the output as it was or showing
\* the prompt; and no input event makes the handler raise TypeError or RangeError.
C7_AsStated ==
  [][ /\ (event'.handler \in {"input", "keydown"} /\ Unusable(event'.parsed)) =>
           /\ ~event'.called
           /\ output' = output \/ output' = Prompt
      /\ event'.handler \in {"input", "keydown"} =>
           event'.thrown \notin {"TypeError", "RangeError"} ]_vars

\* the first half of C7 on its own: it holds of all three handlers
C7_NoDateForUnusableInput ==
  [][ (event'.handler \in {"input", "keydown"} /\ Unusable(event'.parsed)) =>
        /\ ~event'.called
        /\ event'.thrown = "none"
        /\ output' = output \/ output' = Prompt ]_vars

\* the second half fails only for a digit string that parseInt turns into
\* Infinity, which passes the handler's guard and is no integer
C7_ThrowsOnlyForInfinity ==
  event.thrown # "none" =>
    /\ event.thrown = "TypeError"
    /\ event.parsed = Infinity
    /\ variant \in {2, 3}

\* C8 as stated: in every tenseSetter variant the phrase shown for 'past' is
\* 'was Easter', for 'present' 'is Easter' and for 'future' 'will be Easter'.
C8_AsStated ==
  event.compared =>
    /\ event.tense = "past" => tenseField = "was Easter"
    /\ event.tense = "present" => tenseField = "is Easter"
    /\ event.tense = "future" => tenseField = "will be Easter"

\* it holds of the third variant
C8_ThirdVariant == variant = 3 => C8_AsStated

====
